---- MODULE Spec2Model ----
(***************************************************************************)
(* The weather dashboard component of src/src/App.tsx as a state machine.  *)
(*                                                                         *)
(* Strings the code inspects character by character (searchInput, city     *)
(* names) are sequences of one-character strings; the fixed labels and     *)
(* messages the code only compares or stores are TLA+ strings.  A number   *)
(* with a fractional part is a pair numerator/denominator of integers.     *)
(* Math.random() is a fraction k/RandDen with k in 0 .. RandDen-1.         *)
(*                                                                         *)
(* Every handler runs to completion on the single JavaScript thread, so a  *)
(* handler is one action.  fetchWeatherData is two actions: the            *)
(* synchronous part up to the await (run inside the caller's action) and   *)
(* the continuation after the timer fires.                                 *)
(***************************************************************************)
EXTENDS Integers, Sequences, FiniteSets, TLC

\* ------------------------------------------------------------------ bounds
\* Most whitespace characters typed on either side of a name.
MaxPad == 1
\* Most fetchWeatherData calls in flight at once.
MaxPending == 2
\* Resolution of the random source: Math.random() = k / RandDen.
RandDen == 40
\* Largest step between consecutive draws of one explored random stream.
MaxStride == 1
\* Temperatures handed to displayTemp directly range over -MaxProbe .. MaxProbe.
MaxProbe == 120

\* ------------------------------------------------------------------ state
VARIABLES
    city,            \* useState<string>('')
    searchInput,     \* useState<string>('')
    currentWeather,  \* useState<WeatherData | null>(null)
    forecast,        \* useState<ForecastDay[]>([])
    isCelsius,       \* useState<boolean>(true)
    loading,         \* useState<boolean>(false)
    error,           \* useState<string>('')
    mounted,         \* whether the mount effect has run
    pending,         \* fetchWeatherData calls suspended at the await, oldest first
    pendingInfo,     \* history, parallel to pending: how each call started
    startView,       \* history, parallel to pending: the view each call started in (kept under SpecFail)
    behind,          \* history: the oldest pending call was pending when the previous one finished
    lastOp,          \* history: the handler that ran last
    lastDone,        \* history: the call whose continuation ran last
    shownHist,       \* history: figures on screen before each of the latest consecutive toggles
    call,            \* a direct application of a presentation function: its arguments
    ret              \* ... and what it returned

view == <<city, searchInput, currentWeather, forecast, isCelsius, loading, error>>
hist == <<pendingInfo, startView, behind, lastOp, lastDone, shownHist>>
probe == <<call, ret>>
vars == <<view, mounted, pending, hist, probe>>

\* ------------------------------------------------------------------ strings
WhiteSpace == {" ", "\t", "\n"}

RECURSIVE trimStart(_)
trimStart(s) ==
    IF s = <<>> THEN s
    ELSE IF Head(s) \in WhiteSpace THEN trimStart(Tail(s)) ELSE s

RECURSIVE trimEnd(_)
trimEnd(s) ==
    IF s = <<>> THEN s
    ELSE IF s[Len(s)] \in WhiteSpace THEN trimEnd(SubSeq(s, 1, Len(s) - 1)) ELSE s

\* String.prototype.trim
trim(s) == trimEnd(trimStart(s))

\* 'Paris'
Paris == <<"P", "a", "r", "i", "s">>

Pad(n) == [j \in 1..n |-> " "]

\* Values e.target.value can take: nothing or a name, between runs of spaces.
Inputs == {Pad(m) \o name \o Pad(n) : m \in 0..MaxPad, n \in 0..MaxPad, name \in {<<>>, Paris}}

\* 'New York'
DefaultCity == <<"N", "e", "w", " ", "Y", "o", "r", "k">>

Null == [tag |-> "null"]

FetchFailedMessage == "Failed to fetch weather data. Please try again."

\* ------------------------------------------------------------------ numbers
\* Math.floor of num/den, den > 0.
MathFloor(num, den) == num \div den

\* Math.round of num/den, den > 0: the nearest integer, a tie going towards
\* +Infinity, which is floor(x + 1/2).
MathRound(num, den) == MathFloor(2 * num + den, 2 * den)

\* ------------------------------------------------------------------ random source
\* The draws of one fetch: the numerators k of Math.random() = k / RandDen.
\* The explored streams start at the least or the greatest value and advance
\* by a fixed stride, so that every field sees both ends of its range.
Seeds == {0, RandDen - 1}

Strides == 0..MaxStride

Draw(seed, stride, i) == (seed + stride * i) % RandDen

\* Math.floor(Math.random() * n) for the draw with numerator k.
RandomBelow(k, n) == MathFloor(k * n, RandDen)

\* ------------------------------------------------------------------ mock data
conditions == <<"Sunny", "Cloudy", "Rainy", "Partly Cloudy", "Thunderstorm", "Snowy">>

\* getRandomCondition, given the numerator of its one draw (the array is 0-based).
getRandomCondition(k) == conditions[RandomBelow(k, Len(conditions)) + 1]

\* Array.from({ length: 5 }, ...)
ForecastLength == 5

\* Draws made for the reading before the forecast's first one.
WeatherDraws == 6

\* Draws made per forecast entry.
EntryDraws == 4

\* mockWeather with the temperature scaled by 21 instead of 20.
mockWeatherWide(cityName, seed, stride) ==
    [city        |-> cityName,
     country     |-> "US",
     temperature |-> RandomBelow(Draw(seed, stride, 0), 21) + 15,
     feelsLike   |-> RandomBelow(Draw(seed, stride, 1), 20) + 13,
     condition   |-> getRandomCondition(Draw(seed, stride, 2)),
     humidity    |-> RandomBelow(Draw(seed, stride, 3), 40) + 40,
     windSpeed   |-> RandomBelow(Draw(seed, stride, 4), 20) + 5,
     icon        |-> getRandomCondition(Draw(seed, stride, 5))]

\* The object literal mockWeather; the draws are taken in source order.
mockWeather(cityName, seed, stride) ==
    [city        |-> cityName,
     country     |-> "US",
     temperature |-> RandomBelow(Draw(seed, stride, 0), 20) + 15,
     feelsLike   |-> RandomBelow(Draw(seed, stride, 1), 20) + 13,
     condition   |-> getRandomCondition(Draw(seed, stride, 2)),
     humidity    |-> RandomBelow(Draw(seed, stride, 3), 40) + 40,
     windSpeed   |-> RandomBelow(Draw(seed, stride, 4), 20) + 5,
     icon        |-> getRandomCondition(Draw(seed, stride, 5))]

\* Entry i (0-based) of mockForecast.  date is the number of days after the
\* moment of generation that the label names.
forecastDay(i, seed, stride) ==
    LET base == WeatherDraws + EntryDraws * i
    IN  [date      |-> i + 1,
         tempMax   |-> RandomBelow(Draw(seed, stride, base), 15) + 20,
         tempMin   |-> RandomBelow(Draw(seed, stride, base + 1), 10) + 10,
         condition |-> getRandomCondition(Draw(seed, stride, base + 2)),
         icon      |-> getRandomCondition(Draw(seed, stride, base + 3))]

mockForecast(seed, stride) ==
    [j \in 1..ForecastLength |-> forecastDay(j - 1, seed, stride)]

\* ------------------------------------------------------------------ presentation
\* What a property lookup on the object literal iconMap finds: its own six
\* keys first, then the properties every object literal inherits from
\* Object.prototype.  A function or object value is told apart from a string.
iconMapOwn ==
    [c \in {conditions[j] : j \in 1..Len(conditions)} |->
        CASE c = "Sunny"         -> "U+2600 U+FE0F"
          [] c = "Cloudy"        -> "U+2601 U+FE0F"
          [] c = "Rainy"         -> "U+1F327 U+FE0F"
          [] c = "Partly Cloudy" -> "U+26C5"
          [] c = "Thunderstorm"  -> "U+26C8 U+FE0F"
          [] c = "Snowy"         -> "U+2744 U+FE0F"]

ObjectPrototypeFunctions ==
    {"constructor", "toString", "toLocaleString", "valueOf", "hasOwnProperty",
     "isPrototypeOf", "propertyIsEnumerable", "__defineGetter__",
     "__defineSetter__", "__lookupGetter__", "__lookupSetter__"}

Undefined == [type |-> "undefined"]

StringValue(s) == [type |-> "string", value |-> s]

\* iconMap[key]
iconMapGet(key) ==
    IF key \in DOMAIN iconMapOwn THEN StringValue(iconMapOwn[key])
    ELSE IF key \in ObjectPrototypeFunctions THEN [type |-> "function", value |-> key]
    ELSE IF key = "__proto__" THEN [type |-> "object", value |-> "Object.prototype"]
    ELSE Undefined

\* Whether a value counts as false for ||.
Falsy(v) == v = Undefined \/ v = StringValue("")

FallbackGlyph == "U+1F324 U+FE0F"

getWeatherIcon(condition) ==
    LET found == iconMapGet(condition)
    IN  IF Falsy(found) THEN StringValue(FallbackGlyph) ELSE found

\* celsiusToFahrenheit with Math.floor in place of Math.round.
celsiusToFahrenheitFloor(celsius) == MathFloor(9 * celsius + 32 * 5, 5)

\* (celsius * 9/5) + 32 is the fraction (9 * celsius + 160) / 5.  For an
\* integer celsius its fractional part is a multiple of 1/5, never 1/2, so the
\* double the code computes rounds as the exact fraction does.
celsiusToFahrenheit(celsius) == MathRound(9 * celsius + 32 * 5, 5)

\* displayTemp reads the unit flag of the render it belongs to.
displayTemp(celsius) ==
    IF isCelsius THEN MathRound(celsius, 1) ELSE celsiusToFahrenheit(celsius)

\* The temperature figures on screen: the two of the current-weather card and
\* the (max, min) pairs of the forecast cards; a section that is not rendered
\* shows none.
Displayed ==
    [current |-> IF ~loading /\ currentWeather # Null
                 THEN <<displayTemp(currentWeather.temperature),
                        displayTemp(currentWeather.feelsLike)>>
                 ELSE <<>>,
     days    |-> IF ~loading /\ Len(forecast) > 0
                 THEN [j \in 1..Len(forecast) |->
                          <<displayTemp(forecast[j].tempMax),
                            displayTemp(forecast[j].tempMin)>>]
                 ELSE <<>>]

\* ------------------------------------------------------------------ handlers
\* The part of fetchWeatherData before the await: the two flags are set and
\* the call suspends on its 800 ms timer.  Timers of equal delay fire in the
\* order they were set, so the suspended calls form a queue.
fetchWeatherData(cityName) ==
    /\ loading' = TRUE
    /\ error' = ""
    /\ pending' = Append(pending, [cityName |-> cityName])

\* fetchResume with request fencing: a result is dropped when a newer call is
\* pending.
fetchResumeFenced(seed, stride) ==
    /\ pending # <<>>
    /\ LET cityName == Head(pending).cityName
       IN  IF Len(pending) = 1
           THEN /\ currentWeather' = mockWeather(cityName, seed, stride)
                /\ forecast' = mockForecast(seed, stride)
                /\ city' = cityName
           ELSE UNCHANGED <<currentWeather, forecast, city>>
    /\ loading' = FALSE
    /\ pending' = Tail(pending)
    /\ UNCHANGED <<searchInput, isCelsius, error>>

\* The continuation of the oldest suspended call when nothing in the try
\* block throws: the mock data is generated, stored, and finally clears
\* loading.  seed and stride fix the values Math.random() returns.
fetchResume(seed, stride) ==
    /\ pending # <<>>
    /\ LET cityName == Head(pending).cityName
       IN  /\ currentWeather' = mockWeather(cityName, seed, stride)
           /\ forecast' = mockForecast(seed, stride)
           /\ city' = cityName
    /\ loading' = FALSE
    /\ pending' = Tail(pending)
    /\ UNCHANGED <<searchInput, isCelsius, error>>

\* fetchCatch that also blanks the weather on screen.
fetchCatchClearing ==
    /\ pending # <<>>
    /\ error' = FetchFailedMessage
    /\ loading' = FALSE
    /\ pending' = Tail(pending)
    /\ currentWeather' = Null
    /\ UNCHANGED <<city, searchInput, forecast, isCelsius>>

\* The continuation of the oldest suspended call when the try block throws
\* before line 69: catch sets the message, finally clears loading.
fetchCatch ==
    /\ pending # <<>>
    /\ error' = FetchFailedMessage
    /\ loading' = FALSE
    /\ pending' = Tail(pending)
    /\ UNCHANGED <<city, searchInput, currentWeather, forecast, isCelsius>>

\* handleSearch testing the raw text instead of the trimmed text.
handleSearchRawTest ==
    IF searchInput # <<>>
    THEN /\ fetchWeatherData(trim(searchInput))
         /\ searchInput' = <<>>
         /\ UNCHANGED <<city, currentWeather, forecast, isCelsius>>
    ELSE UNCHANGED <<view, pending>>

\* handleSearch passing the raw text instead of the trimmed text.
handleSearchRawName ==
    IF trim(searchInput) # <<>>
    THEN /\ fetchWeatherData(searchInput)
         /\ searchInput' = <<>>
         /\ UNCHANGED <<city, currentWeather, forecast, isCelsius>>
    ELSE UNCHANGED <<view, pending>>

\* onSubmit of the search form.
handleSearch ==
    IF trim(searchInput) # <<>>
    THEN /\ fetchWeatherData(trim(searchInput))
         /\ searchInput' = <<>>
         /\ UNCHANGED <<city, currentWeather, forecast, isCelsius>>
    ELSE UNCHANGED <<view, pending>>

\* toggleUnit that also empties the search box.
toggleUnitResetting ==
    /\ isCelsius' = ~isCelsius
    /\ searchInput' = <<>>
    /\ UNCHANGED <<city, currentWeather, forecast, loading, error, pending>>

\* toggleUnit that always selects Fahrenheit.
toggleUnitOneWay ==
    /\ isCelsius' = FALSE
    /\ UNCHANGED <<city, searchInput, currentWeather, forecast, loading, error, pending>>

\* onClick of the unit button.
toggleUnit ==
    /\ isCelsius' = ~isCelsius
    /\ UNCHANGED <<city, searchInput, currentWeather, forecast, loading, error, pending>>

\* onChange of the search box.
onChange(value) ==
    /\ searchInput' = value
    /\ UNCHANGED <<city, currentWeather, forecast, isCelsius, loading, error, pending>>

\* The mount effect.
useEffect ==
    /\ fetchWeatherData(DefaultCity)
    /\ UNCHANGED <<city, searchInput, currentWeather, forecast, isCelsius>>

\* ------------------------------------------------------------------ initial state
NoCall == [fn |-> "none"]

Init ==
    /\ city = <<>>
    /\ searchInput = <<>>
    /\ currentWeather = Null
    /\ forecast = <<>>
    /\ isCelsius = TRUE
    /\ loading = FALSE
    /\ error = ""
    /\ mounted = FALSE
    /\ pending = <<>>
    /\ pendingInfo = <<>>
    /\ startView = <<>>
    /\ behind = FALSE
    /\ lastOp = "init"
    /\ lastDone = Null
    /\ shownHist = <<>>
    /\ call = NoCall
    /\ ret = Undefined

\* ------------------------------------------------------------------ actions
\* The weather, forecast and city the view holds.
Shown == [currentWeather |-> currentWeather, forecast |-> forecast, city |-> city]

\* What is remembered of a call for its whole life: whether the text it was
\* given had whitespace around the name.
Started(raw) == [padded |-> raw # trim(raw)]

\* What is remembered of the call that finished last.  raced: another call
\* finished while this one was pending.
Finished(outcome) ==
    [cityName |-> Head(pending).cityName, padded |-> Head(pendingInfo).padded,
     raced |-> behind, outcome |-> outcome]

\* React runs the mount effect before it dispatches any event, so the other
\* handlers run only once mounted.
MountStep ==
    /\ ~mounted
    /\ mounted' = TRUE
    /\ useEffect
    /\ pendingInfo' = Append(pendingInfo, Started(DefaultCity))
    /\ lastOp' = "useEffect"
    /\ shownHist' = <<>>
    /\ UNCHANGED <<behind, lastDone, probe>>

Change ==
    /\ mounted
    /\ \E value \in Inputs : onChange(value)
    /\ lastOp' = "onChange"
    /\ shownHist' = <<>>
    /\ UNCHANGED <<mounted, pendingInfo, startView, behind, lastDone, probe>>

SearchStep ==
    /\ mounted
    /\ trim(searchInput) # <<>> => Len(pending) < MaxPending
    /\ handleSearch
    /\ pendingInfo' = IF Len(pending') > Len(pending)
                      THEN Append(pendingInfo, Started(searchInput))
                      ELSE pendingInfo
    /\ lastOp' = "handleSearch"
    /\ shownHist' = <<>>
    /\ UNCHANGED <<mounted, behind, lastDone, probe>>

\* shownHist keeps what was on screen before each of the last two toggles.
Toggle ==
    /\ mounted
    /\ toggleUnit
    /\ lastOp' = "toggleUnit"
    /\ shownHist' = IF Len(shownHist) < 2 THEN Append(shownHist, Displayed)
                    ELSE <<shownHist[2], Displayed>>
    /\ UNCHANGED <<mounted, pendingInfo, startView, behind, lastDone, probe>>

ResumeStep ==
    /\ pendingInfo # <<>>
    /\ \E seed \in Seeds, stride \in Strides : fetchResume(seed, stride)
    /\ pendingInfo' = Tail(pendingInfo)
    /\ behind' = (Len(pending) >= 2)
    /\ lastDone' = Finished("resolved")
    /\ lastOp' = "fetchResume"
    /\ shownHist' = <<>>
    /\ UNCHANGED <<mounted, probe>>

CatchStep ==
    /\ pendingInfo # <<>>
    /\ fetchCatch
    /\ pendingInfo' = Tail(pendingInfo)
    /\ behind' = (Len(pending) >= 2)
    /\ lastDone' = Finished("failed")
    /\ lastOp' = "fetchCatch"
    /\ shownHist' = <<>>
    /\ UNCHANGED <<mounted, probe>>

Mount == MountStep /\ UNCHANGED startView

Search == SearchStep /\ UNCHANGED startView

Resume == ResumeStep /\ UNCHANGED startView

\* The same steps, also keeping the view each call started in.
MountTracked == MountStep /\ startView' = Append(startView, Shown)

SearchTracked ==
    /\ SearchStep
    /\ startView' = IF Len(pending') > Len(pending)
                    THEN Append(startView, Shown)
                    ELSE startView

ResumeTracked == ResumeStep /\ startView' = Tail(startView)

Catch == CatchStep /\ startView' = Tail(startView)

\* A direct application of displayTemp to an integer number of degrees.
CallDisplayTemp ==
    /\ \E celsius \in -MaxProbe..MaxProbe :
          /\ call' = [fn |-> "displayTemp", celsius |-> celsius, isCelsius |-> isCelsius]
          /\ ret' = displayTemp(celsius)
    /\ UNCHANGED <<view, mounted, pending, hist>>

\* Labels handed to getWeatherIcon directly: the six of the enumeration and
\* others, among them names of properties that all objects inherit.
ConditionProbes ==
    {conditions[j] : j \in 1..Len(conditions)} \cup
    {"", "Foggy", "sunny", "Partly cloudy", "constructor", "toString", "valueOf",
     "hasOwnProperty", "__proto__"}

\* A direct application of getWeatherIcon.
CallGetWeatherIcon ==
    /\ \E condition \in ConditionProbes :
          /\ call' = [fn |-> "getWeatherIcon", condition |-> condition]
          /\ ret' = getWeatherIcon(condition)
    /\ UNCHANGED <<view, mounted, pending, hist>>

Next == Mount \/ Change \/ Search \/ Toggle \/ Resume

Spec == Init /\ [][Next]_vars

\* The component with a data source that can fail: the try block of
\* fetchWeatherData may throw.
NextFail == MountTracked \/ Change \/ SearchTracked \/ Toggle \/ ResumeTracked \/ Catch

SpecFail == Init /\ [][NextFail]_vars

\* The presentation functions applied to arguments of any value, in either unit.
NextPure == Mount \/ Toggle \/ CallDisplayTemp \/ CallGetWeatherIcon

SpecPure == Init /\ [][NextPure]_vars

\* ------------------------------------------------------------------ properties
Labels == {"Sunny", "Cloudy", "Rainy", "Partly Cloudy", "Thunderstorm", "Snowy"}

ReadingInRange(r) ==
    /\ 15 <= r.temperature /\ r.temperature < 35
    /\ 13 <= r.feelsLike /\ r.feelsLike < 33
    /\ 40 <= r.humidity /\ r.humidity < 80
    /\ 5 <= r.windSpeed /\ r.windSpeed < 25
    /\ r.condition \in Labels

EntryInRange(e) ==
    /\ 20 <= e.tempMax /\ e.tempMax < 35
    /\ 10 <= e.tempMin /\ e.tempMin < 20
    /\ e.condition \in Labels

\* C1: whenever a fetchWeatherData call has completed, the stored reading is
\* within 15 <= temperature < 35, 13 <= feelsLike < 33, 40 <= humidity < 80,
\* 5 <= windSpeed < 25, the stored forecast has exactly 5 entries, each with
\* 20 <= tempMax < 35 and 10 <= tempMin < 20, and every condition is one of
\* the six labels; and no reading or forecast is stored otherwise.
C1_GeneratedInRange ==
    /\ currentWeather # Null => ReadingInRange(currentWeather)
    /\ forecast # <<>> =>
          /\ Len(forecast) = 5
          /\ \A j \in 1..Len(forecast) : EntryInRange(forecast[j])
    /\ lastDone # Null <=> currentWeather # Null
    /\ lastDone # Null <=> forecast # <<>>

\* A search has completed with every draw at the top of its range.
C1_Witness ==
    /\ lastDone # Null /\ lastDone.cityName = Paris
    /\ currentWeather # Null
    /\ currentWeather.temperature = 34 /\ currentWeather.feelsLike = 32
    /\ currentWeather.humidity = 79 /\ currentWeather.windSpeed = 24
    /\ Len(forecast) = 5
    /\ forecast[5].tempMax = 34 /\ forecast[5].tempMin = 19

\* r is num/den rounded to the nearest integer, a tie going up.
Nearest(r, num, den) ==
    /\ 2 * (den * r - num) <= den
    /\ 2 * (num - den * r) < den

\* C2: displayTemp of an integer c returns c itself (round(c)) under
\* Celsius, and under Fahrenheit the integer nearest to c * 9/5 + 32; in
\* Fahrenheit 0 gives 32, 100 gives 212 and 20 gives 68.
C2_DisplayTemp ==
    call.fn = "displayTemp" =>
        /\ call.isCelsius => ret = call.celsius
        /\ ~call.isCelsius =>
              /\ Nearest(ret, 9 * call.celsius + 160, 5)
              /\ call.celsius = 0 => ret = 32
              /\ call.celsius = 100 => ret = 212
              /\ call.celsius = 20 => ret = 68

\* displayTemp has converted a temperature whose Fahrenheit value is no integer.
C2_Witness ==
    /\ call.fn = "displayTemp" /\ ~call.isCelsius
    /\ call.celsius = 21 /\ ret = 70

\* C3 as claimed: getWeatherIcon returns, for each of the six labels, its
\* non-empty glyph of the table, and for every other condition value the
\* fallback glyph; what it returns is always a string.
C3_IconTotal ==
    call.fn = "getWeatherIcon" =>
        /\ ret.type = "string"
        /\ call.condition \in Labels =>
              ret.value = iconMapOwn[call.condition] /\ ret.value # ""
        /\ call.condition \notin Labels => ret = StringValue(FallbackGlyph)

Blank(s) == \A j \in 1..Len(s) : s[j] \in WhiteSpace

\* C4: a submit of the search form while the search text is empty or all
\* whitespace starts no fetch and leaves city, searchInput, currentWeather,
\* forecast, isCelsius, loading and error as they were.
C4_BlankSubmitNoOp ==
    [][(lastOp' = "handleSearch" /\ Blank(searchInput)) =>
          UNCHANGED <<city, searchInput, currentWeather, forecast, isCelsius,
                      loading, error, pending>>]_vars

\* The form has just been submitted with a text of spaces only.
C4_Witness ==
    /\ lastOp = "handleSearch"
    /\ searchInput # <<>> /\ Blank(searchInput)

\* c is s without its leading and trailing whitespace.
IsTrimOf(c, s) ==
    \E m \in 0..Len(s), n \in 0..Len(s) :
        /\ m + Len(c) + n = Len(s)
        /\ c = SubSeq(s, m + 1, m + Len(c))
        /\ \A j \in 1..m : s[j] \in WhiteSpace
        /\ \A j \in (Len(s) - n + 1)..Len(s) : s[j] \in WhiteSpace
        /\ c # <<>> => c[1] \notin WhiteSpace /\ c[Len(c)] \notin WhiteSpace

C6_ToggleFrame ==
    [][lastOp' = "toggleUnit" =>
          /\ isCelsius' = ~isCelsius
          /\ UNCHANGED <<currentWeather, forecast, city, searchInput, loading,
                         error, pending>>]_vars

\* The unit was toggled, back to Celsius, with text typed and a fetch pending.
C6_Witness ==
    /\ lastOp = "toggleUnit" /\ isCelsius
    /\ pending # <<>> /\ searchInput # <<>>
    /\ Len(shownHist) = 2

\* C7: after two toggles in a row every temperature figure on screen is the
\* figure that was there before the two.
C7_ToggleTwice ==
    Len(shownHist) = 2 => Displayed = shownHist[1]

\* Two toggles in a row with weather on screen, the figures between the two
\* differing from those before and after.
C7_Witness ==
    /\ Len(shownHist) = 2
    /\ Len(Displayed.current) = 2 /\ Len(Displayed.days) = 5
    /\ shownHist[2].current # Displayed.current
    /\ \A j \in 1..5 : shownHist[2].days[j] # Displayed.days[j]

C10_LastResolvedWins ==
    (lastDone # Null /\ lastDone.outcome = "resolved") =>
        /\ currentWeather # Null
        /\ currentWeather.city = lastDone.cityName
        /\ city = lastDone.cityName
        /\ Len(forecast) = 5

\* Of two overlapping calls both have resolved, the mount's for New York
\* first and a search for Paris, started while it was pending, last: the view
\* holds Paris.
C10_Witness ==
    /\ lastOp = "fetchResume" /\ lastDone.raced
    /\ pending = <<>>
    /\ lastDone.cityName = Paris /\ city = Paris
    /\ currentWeather.city = Paris

====
